---- MODULE Spec2Model ----
(***************************************************************************)
(* A model of asyncpg_lite.DatabaseManager (src/asyncpg_lite/__init__.py): *)
(* the metadata catalog of one manager, the live PostgreSQL database it    *)
(* talks to, and one action per public coroutine.  Every action models a   *)
(* whole call, from its first line to its return or raise, and records in  *)
(* `call` what the caller and the log sink observe of it.                  *)
(***************************************************************************)
EXTENDS Integers, Sequences, FiniteSets, TLC

VARIABLES
    deletion_password,  \* self.deletion_password
    metadata,           \* self.metadata: table name -> cached Table description
    db,                 \* the live database behind self.engine
    reflects,           \* per table, how often this manager has reflected it
    call,               \* the last call: arguments, outcome, result, log, accesses
    engine,             \* self.engine: the engine of the last connect(), 0 for None
    _session_instance,  \* self._session_instance: its session, 0 for None
    engines,            \* every engine a connect() created: open or disposed
    sessions,           \* every session created: who made it, open or closed
    ops,                \* per concurrent caller, where its operation stands
    scope,              \* the `async with DatabaseManager(...)` block
    last                \* the last of connect() and disconnect() that ran

data_vars == <<deletion_password, metadata, db, reflects, call>>

life_vars == <<engine, _session_instance, engines, sessions, ops, scope, last>>

vars == <<deletion_password, metadata, db, reflects, call,
          engine, _session_instance, engines, sessions, ops, scope, last>>

(***************************************************************************)
(* Bounds and the small sets the inputs are drawn from.                    *)
(***************************************************************************)
MaxBatch == 2       \* records per insert_data_with_update call
MaxList == 2        \* mappings per list-shaped where_dict
MaxReflect == 2     \* cap of the reflection counter
MaxConnect == 2     \* connect() calls on one manager
MaxSessions == 4    \* sessions created on one manager

Tables == {"t1", "t2"}
AllCols == {"id", "a"}
\* the column lists create_table is called with, per table
SchemasOf(t) == IF t = "t1" THEN {{"id"}, {"id", "a"}} ELSE {{"id"}}
Vals == {"v1", "v2"}
Passwords == {"pw", "bad"}
NULL == "NULL"
PrimaryKey == "id"
\* the keys of the records: the columns, and b, which no table has
RecordCols == AllCols \cup {"b"}
\* the columns of a table of three columns, for the batches of records
WideCols == AllCols \cup {"c"}

\* every mapping column -> literal over the columns S (dicts of the API)
Mappings(S) == UNION {[D -> Vals] : D \in SUBSET S}

\* the mappings of filters and records over the keys S: any value for the
\* primary key, v1 for every other key
Literals(S) ==
    {m \in Mappings(S) : \A k \in DOMAIN m : k # PrimaryKey => m[k] = "v1"}

\* sequences over S of length lo..hi
SeqsOf(S, lo, hi) == UNION {[1..n -> S] : n \in lo..hi}

(***************************************************************************)
(* The live database: per table, whether it exists, its columns, its rows. *)
(* The primary key column is unique and NOT NULL.                          *)
(***************************************************************************)
Absent == [exists |-> FALSE, cols |-> {}, rows |-> {}]

EmptyTable(cols) == [exists |-> TRUE, cols |-> cols, rows |-> {}]

NotCached == [cached |-> FALSE, cols |-> {}]

Cached(cols) == [cached |-> TRUE, cols |-> cols]

(***************************************************************************)
(* What a call leaves for its observers; `before` keeps the database and   *)
(* the catalog the call started from.                                      *)
(***************************************************************************)
NoWhere == [kind |-> "none", maps |-> <<>>]

NoArgs ==
    [password |-> "", where |-> NoWhere, columns |-> {}, one_dict |-> FALSE,
     records |-> [kind |-> "none", recs |-> <<>>], conflict_column |-> "", update_on_conflict |-> FALSE,
     update_dict |-> <<>>, schema |-> {}]

Call(op, t, args, outcome, result, shape, log, access, reflected) ==
    [op |-> op, table |-> t, args |-> args, outcome |-> outcome,
     result |-> result, shape |-> shape, log |-> log, access |-> access,
     reflected |-> reflected,
     before |-> [db |-> db, metadata |-> metadata]]

\* no call in progress: the manager was constructed, or the caller has the
\* outcome of its last call
NoCall == Call("idle", "", NoArgs, "ok", <<>>, "none", <<>>, {}, {})

\* the calls of one caller are awaited one after the other
Ready == call.op = "idle"

\* the operations below leave the engine and the sessions as they were
Quiet == UNCHANGED life_vars

Return ==
    /\ ~Ready
    /\ call' = NoCall
    /\ UNCHANGED <<deletion_password, metadata, db, reflects>>
    /\ Quiet

(***************************************************************************)
(* get_table: MetaData.reflect loads every live table the catalog does not *)
(* hold yet; Table(name, metadata, autoload_with=conn) then returns the    *)
(* catalog's entry, and raises NoSuchTableError when there is none and the *)
(* database has no such table.                                             *)
(***************************************************************************)
\* reflect with extend_existing: cached tables are loaded again
ToReflectAll(md, d) == {u \in Tables : d[u].exists}

ToReflect(md, d) == {u \in Tables : d[u].exists /\ ~md[u].cached}

Reflect(md, d) ==
    [u \in Tables |-> IF u \in ToReflect(md, d) THEN Cached(d[u].cols) ELSE md[u]]

Resolves(md, d, t) == Reflect(md, d)[t].cached

Counted(md, d) ==
    [u \in Tables |-> IF u \in ToReflect(md, d) THEN reflects[u] + 1 ELSE reflects[u]]

\* table = await self.get_table(table_name), the first step of every
\* operation on a table
Resolve ==
    /\ \A u \in ToReflect(metadata, db) : reflects[u] < MaxReflect
    /\ metadata' = Reflect(metadata, db)
    /\ reflects' = Counted(metadata, db)

TableOf(t) == Reflect(metadata, db)[t]

get_table(t) ==
    /\ Resolve
    /\ call' = IF Resolves(metadata, db, t)
               THEN Call("get_table", t, NoArgs, "ok", <<>>, "table", <<"debug">>,
                         {"connect"}, ToReflect(metadata, db))
               ELSE Call("get_table", t, NoArgs, "NoSuchTableError", <<>>, "none", <<>>,
                         {"connect"}, ToReflect(metadata, db))
    /\ UNCHANGED <<deletion_password, db>>

(***************************************************************************)
(* create_table: Table(name, metadata, *columns) raises when the catalog   *)
(* already holds the name; otherwise the table joins the catalog and       *)
(* metadata.create_all creates every catalog table the database lacks.     *)
(***************************************************************************)
CreateAll(md, d) ==
    [u \in Tables |-> IF md[u].cached /\ ~d[u].exists THEN EmptyTable(md[u].cols) ELSE d[u]]

create_table(t, cols) ==
    LET args == [NoArgs EXCEPT !.schema = cols]
        md == [metadata EXCEPT ![t] = Cached(cols)]
    IN  /\ UNCHANGED <<deletion_password, reflects>>
        /\ IF metadata[t].cached
           THEN /\ call' = Call("create_table", t, args, "InvalidRequestError", <<>>,
                                "none", <<>>, {}, {})
                /\ UNCHANGED <<metadata, db>>
           ELSE /\ metadata' = md
                /\ db' = CreateAll(md, db)
                /\ call' = Call("create_table", t, args, "ok", <<>>, "none", <<"info">>,
                                {"begin"}, {})

(***************************************************************************)
(* The where clause, as select_data, update_data and delete_data build it: *)
(* table.c[key] == value per item, and_ over one mapping, or_ over the     *)
(* and_ of every mapping of a list.  table.c[key] raises KeyError for a    *)
(* key that is no column of the resolved table.                            *)
(***************************************************************************)
\* or_ does not depend on the order of its clauses: the lists are taken
\* with their mappings in one order, none of them twice
Rank(m) ==
    (IF PrimaryKey \notin DOMAIN m THEN 0 ELSE IF m[PrimaryKey] = "v1" THEN 1 ELSE 2)
    + (IF DOMAIN m \ {PrimaryKey} = {} THEN 0 ELSE 3)

Ordered(s) == \A i \in 1..(Len(s) - 1) : Rank(s[i]) < Rank(s[i + 1])

Wheres ==
    {NoWhere}
    \cup {[kind |-> "dict", maps |-> <<m>>] : m \in Literals(AllCols)}
    \cup {[kind |-> "list", maps |-> s] :
            s \in {q \in SeqsOf(Literals(AllCols), 0, MaxList) : Ordered(q)}}

Keys(w) == UNION {DOMAIN w.maps[i] : i \in DOMAIN w.maps}

\* Python truth value of where_dict: None, {} and [] are false
Truthy(w) ==
    \/ w.kind = "dict" /\ DOMAIN w.maps[1] # {}
    \/ w.kind = "list" /\ w.maps # <<>>

conditions(m) == {[col |-> k, val |-> m[k]] : k \in DOMAIN m}

and_(conds) == [op |-> "and", args |-> conds]

or_(clauses) == [op |-> "or", args |-> clauses]

NoClause == [op |-> "none", args |-> {}]

WhereClause(w) ==
    IF w.kind = "dict"
    THEN and_(conditions(w.maps[1]))
    ELSE or_([i \in DOMAIN w.maps |-> and_(conditions(w.maps[i]))])

\* select_data applies the clause only to a true where_dict
SelectWhere(w) == IF Truthy(w) THEN WhereClause(w) ELSE NoClause

\* update_data and delete_data apply it to every dict and every list
WriteWhere(w) == IF w.kind = "none" THEN NoClause ELSE WhereClause(w)

ClauseKeys(c) ==
    IF c.op = "and" THEN {e.col : e \in c.args}
    ELSE IF c.op = "or" THEN UNION {{e.col : e \in c.args[i].args} : i \in DOMAIN c.args}
    ELSE {}

\* an and_ of nothing renders no SQL, inside an or_ too; a clause that
\* renders nothing adds no WHERE to the statement
Renders(c) ==
    IF c.op = "and" THEN c.args # {}
    ELSE IF c.op = "or" THEN \E i \in DOMAIN c.args : c.args[i].args # {}
    ELSE FALSE

\* and_ taken for or_: one equality is enough
SatisfiesAny(row, c) ==
    IF ~Renders(c) THEN TRUE
    ELSE IF c.op = "and" THEN \E e \in c.args : row[e.col] = e.val
    ELSE \E i \in DOMAIN c.args : \E e \in c.args[i].args : row[e.col] = e.val

\* SQL evaluation of the rendered WHERE on one row (NULL equals nothing)
Satisfies(row, c) ==
    IF ~Renders(c) THEN TRUE
    ELSE IF c.op = "and" THEN \A e \in c.args : row[e.col] = e.val
    ELSE \E i \in DOMAIN c.args :
            /\ c.args[i].args # {}
            /\ \A e \in c.args[i].args : row[e.col] = e.val

Matching(rows, c) == {r \in rows : Satisfies(r, c)}

\* table.c[key] never raises
UnknownColumnNever(table, c) == FALSE

\* table.c[key] raises KeyError while the clause is built, for a key that
\* is no column of the resolved table
UnknownColumn(table, c) == ~(ClauseKeys(c) \subseteq table.cols)

(***************************************************************************)
(* select_data                                                             *)
(***************************************************************************)
\* the columns argument: none, or the column a
Projections == {{}, {"a"}}

Orderings(S) ==
    {s \in [1..Cardinality(S) -> S] : \A i, j \in 1..Cardinality(S) : i # j => s[i] # s[j]}

Project(row, columns) == [c \in columns |-> row[c]]

\* a statement fails in the database when its table, or a column it names,
\* is not there
Undefined(t, used) == ~db[t].exists \/ ~(used \subseteq db[t].cols)

\* one_dict dropped: the whole list is returned
ResultOfList(one_dict, list_of_dicts) ==
    [result |-> list_of_dicts, shape |-> "list", log |-> <<"debug", "info">>]

\* the return value: the first dict for one_dict and a non-empty list,
\* else the list, after the info line
ResultOf(one_dict, list_of_dicts) ==
    IF one_dict /\ list_of_dicts # <<>>
    THEN [result |-> <<list_of_dicts[1]>>, shape |-> "dict", log |-> <<"debug">>]
    ELSE [result |-> list_of_dicts, shape |-> "list", log |-> <<"debug", "info">>]

select_data(t, w, columns, one_dict) ==
    LET args == [NoArgs EXCEPT !.where = w, !.columns = columns, !.one_dict = one_dict]
        table == TableOf(t)
        stmt == SelectWhere(w)
        selected == IF columns # {} THEN columns ELSE table.cols
        refl == ToReflect(metadata, db)
        raise(e, access) ==
            call' = Call("select_data", t, args, e, <<>>, "none",
                         IF e = "NoSuchTableError" THEN <<>> ELSE <<"debug">>, access, refl)
    IN  /\ Resolve
        /\ UNCHANGED <<deletion_password, db>>
        /\ IF ~table.cached THEN raise("NoSuchTableError", {"connect"})
           ELSE IF ~(columns \subseteq table.cols) THEN raise("KeyError", {"connect"})
           ELSE IF UnknownColumn(table, stmt) THEN raise("KeyError", {"connect"})
           ELSE IF Undefined(t, selected \cup ClauseKeys(stmt))
                THEN raise("ProgrammingError", {"connect", "session"})
           ELSE \E rows \in Orderings(Matching(db[t].rows, stmt)) :
                  LET list_of_dicts == [i \in DOMAIN rows |-> Project(rows[i], selected)]
                      ret == ResultOf(one_dict, list_of_dicts)
                  IN  call' = Call("select_data", t, args, "ok", ret.result, ret.shape,
                                   ret.log, {"connect", "session"}, refl)

(***************************************************************************)
(* update_data                                                             *)
(***************************************************************************)
\* the UPDATE loses its WHERE
ApplyUpdateAll(rows, c, update_dict) ==
    {[k \in DOMAIN r |-> IF k \in DOMAIN update_dict THEN update_dict[k] ELSE r[k]] :
        r \in rows}

ApplyUpdate(rows, c, update_dict) ==
    {IF Satisfies(r, c)
     THEN [k \in DOMAIN r |-> IF k \in DOMAIN update_dict THEN update_dict[k] ELSE r[k]]
     ELSE r : r \in rows}

\* the primary key stays unique: every matching row gets the same new key
UniqueViolation(rows, c, update_dict) ==
    /\ PrimaryKey \in DOMAIN update_dict
    /\ LET hit == Matching(rows, c)
       IN  \/ Cardinality(hit) > 1
           \/ /\ hit # {}
              /\ \E r \in rows \ hit : r[PrimaryKey] = update_dict[PrimaryKey]

update_data(t, w, update_dict) ==
    LET args == [NoArgs EXCEPT !.where = w, !.update_dict = update_dict]
        table == TableOf(t)
        stmt == WriteWhere(w)
        refl == ToReflect(metadata, db)
        raise(e, access) ==
            /\ call' = Call("update_data", t, args, e, <<>>, "none",
                            IF e = "NoSuchTableError" THEN <<>>
                            ELSE IF e = "KeyError" THEN <<"debug">>
                            ELSE <<"debug", "debug">>, access, refl)
            /\ UNCHANGED db
    IN  /\ Resolve
        /\ UNCHANGED deletion_password
        /\ IF ~table.cached THEN raise("NoSuchTableError", {"connect"})
           ELSE IF UnknownColumn(table, stmt) THEN raise("KeyError", {"connect"})
           ELSE IF ~(DOMAIN update_dict \subseteq table.cols)
                THEN raise("CompileError", {"connect", "session"})
           ELSE IF DOMAIN update_dict = {}
                   \/ Undefined(t, DOMAIN update_dict \cup ClauseKeys(stmt))
                THEN raise("ProgrammingError", {"connect", "session"})
           ELSE IF UniqueViolation(db[t].rows, stmt, update_dict)
                THEN raise("IntegrityError", {"connect", "session"})
           ELSE /\ db' = [db EXCEPT ![t].rows = ApplyUpdate(db[t].rows, stmt, update_dict)]
                /\ call' = Call("update_data", t, args, "ok", <<>>, "none",
                                <<"debug", "debug", "info">>, {"connect", "session"}, refl)

(***************************************************************************)
(* delete_data                                                             *)
(***************************************************************************)
\* the DELETE never reaches the table
ApplyDeleteNone(rows, c) == rows

\* the DELETE loses its WHERE
ApplyDeleteAll(rows, c) == {}

ApplyDelete(rows, c) == rows \ Matching(rows, c)

delete_data(t, w) ==
    LET args == [NoArgs EXCEPT !.where = w]
        table == TableOf(t)
        stmt == WriteWhere(w)
        refl == ToReflect(metadata, db)
        raise(e, access) ==
            /\ call' = Call("delete_data", t, args, e, <<>>, "none",
                            IF e = "NoSuchTableError" THEN <<>>
                            ELSE IF e = "KeyError" THEN <<"debug">>
                            ELSE <<"debug", "debug">>, access, refl)
            /\ UNCHANGED db
    IN  /\ Resolve
        /\ UNCHANGED deletion_password
        /\ IF ~table.cached THEN raise("NoSuchTableError", {"connect"})
           ELSE IF UnknownColumn(table, stmt) THEN raise("KeyError", {"connect"})
           ELSE IF Undefined(t, ClauseKeys(stmt))
                THEN raise("ProgrammingError", {"connect", "session"})
           ELSE /\ db' = [db EXCEPT ![t].rows = ApplyDelete(db[t].rows, stmt)]
                /\ call' = Call("delete_data", t, args, "ok", <<>>, "none",
                                <<"debug", "debug", "info">>, {"connect", "session"}, refl)

(***************************************************************************)
(* The guarded operations: drop_table and delete_all_data return after a   *)
(* warning when the password is not self.deletion_password.                *)
(***************************************************************************)
\* the guard left out: every password passes
RejectedNever(password) == FALSE

Rejected(password) == password # deletion_password

\* metadata.drop_all(tables=[table]) drops the table where it exists
DropAll(d, t) == [d EXCEPT ![t] = Absent]

drop_table(t, password) ==
    LET args == [NoArgs EXCEPT !.password = password]
        table == TableOf(t)
        refl == ToReflect(metadata, db)
    IN  /\ UNCHANGED deletion_password
        /\ IF Rejected(password)
           THEN /\ call' = Call("drop_table", t, args, "ok", <<>>, "none", <<"warning">>,
                                {}, {})
                /\ UNCHANGED <<metadata, db, reflects>>
           ELSE /\ Resolve
                /\ IF ~table.cached
                   THEN /\ call' = Call("drop_table", t, args, "NoSuchTableError", <<>>,
                                        "none", <<>>, {"connect"}, refl)
                        /\ UNCHANGED db
                   ELSE /\ db' = DropAll(db, t)
                        /\ call' = Call("drop_table", t, args, "ok", <<>>, "none",
                                        <<"debug", "info">>, {"connect", "begin"}, refl)

delete_all_data(t, password) ==
    LET args == [NoArgs EXCEPT !.password = password]
        table == TableOf(t)
        refl == ToReflect(metadata, db)
        raise(e, log, access) ==
            /\ call' = Call("delete_all_data", t, args, e, <<>>, "none", log, access, refl)
            /\ UNCHANGED db
    IN  /\ UNCHANGED deletion_password
        /\ IF Rejected(password)
           THEN /\ call' = Call("delete_all_data", t, args, "ok", <<>>, "none",
                                <<"warning">>, {}, {})
                /\ UNCHANGED <<metadata, db, reflects>>
           ELSE /\ Resolve
                /\ IF ~table.cached THEN raise("NoSuchTableError", <<>>, {"connect"})
                   ELSE IF Undefined(t, {})
                        THEN raise("ProgrammingError", <<"debug">>, {"connect", "session"})
                   ELSE /\ db' = [db EXCEPT ![t].rows = ApplyDelete(db[t].rows, NoClause)]
                        /\ call' = Call("delete_all_data", t, args, "ok", <<>>, "none",
                                        <<"debug", "info">>, {"connect", "session"}, refl)

(***************************************************************************)
(* insert_data_with_update: INSERT ... VALUES of the whole batch with      *)
(* ON CONFLICT (conflict_column) DO UPDATE SET, or ON CONFLICT DO NOTHING. *)
(* The columns of the VALUES list, and the SET list, come from the first   *)
(* record: a later record must hold these keys, and its further keys are   *)
(* not read.                                                               *)
(***************************************************************************)
\* a record holds some of the columns, or all of them and the key b
Records ==
    {m \in Literals(RecordCols) :
        DOMAIN m # {} /\ ("b" \in DOMAIN m => DOMAIN m = RecordCols)}

RecordsData ==
    {[kind |-> "dict", recs |-> <<r>>] : r \in Records}
    \cup {[kind |-> "list", recs |-> s] : s \in SeqsOf(Records, 0, MaxBatch)}

\* the rows the VALUES list proposes: a column outside it is NULL
Proposed(recs, keys, cols) ==
    [i \in DOMAIN recs |-> [c \in cols |-> IF c \in keys THEN recs[i][c] ELSE NULL]]

\* DO UPDATE that keeps the row it conflicts with
RECURSIVE OnConflictKeepOld(_, _, _, _, _)
OnConflictKeepOld(rows, touched, proposed, i, set_) ==
    IF i > Len(proposed) THEN [err |-> "ok", rows |-> rows]
    ELSE LET p == proposed[i]
             hit == {r \in rows : r[PrimaryKey] = p[PrimaryKey]}
         IN  IF p[PrimaryKey] \in touched
             THEN [err |-> "DBAPIError", rows |-> rows]
             ELSE OnConflictKeepOld(IF hit = {} THEN rows \cup {p} ELSE rows,
                                    touched \cup {p[PrimaryKey]}, proposed, i + 1, set_)

RECURSIVE OnConflictDoUpdate(_, _, _, _, _)
OnConflictDoUpdate(rows, touched, proposed, i, set_) ==
    IF i > Len(proposed) THEN [err |-> "ok", rows |-> rows]
    ELSE LET p == proposed[i]
             hit == {r \in rows : r[PrimaryKey] = p[PrimaryKey]}
             new == {[c \in DOMAIN r |-> IF c \in set_ THEN p[c] ELSE r[c]] : r \in hit}
         IN  IF p[PrimaryKey] \in touched
             THEN [err |-> "DBAPIError", rows |-> rows]
             ELSE OnConflictDoUpdate(IF hit = {} THEN rows \cup {p} ELSE (rows \ hit) \cup new,
                                     touched \cup {p[PrimaryKey]}, proposed, i + 1, set_)

\* a plain INSERT: the conflict is a unique violation
RECURSIVE OnConflictRaise(_, _, _)
OnConflictRaise(rows, proposed, i) ==
    IF i > Len(proposed) THEN [err |-> "ok", rows |-> rows]
    ELSE LET p == proposed[i]
             hit == {r \in rows : r[PrimaryKey] = p[PrimaryKey]}
         IN  IF hit # {} THEN [err |-> "IntegrityError", rows |-> rows]
             ELSE OnConflictRaise(rows \cup {p}, proposed, i + 1)

RECURSIVE OnConflictDoNothing(_, _, _)
OnConflictDoNothing(rows, proposed, i) ==
    IF i > Len(proposed) THEN [err |-> "ok", rows |-> rows]
    ELSE LET p == proposed[i]
             hit == {r \in rows : r[PrimaryKey] = p[PrimaryKey]}
         IN  OnConflictDoNothing(IF hit = {} THEN rows \cup {p} ELSE rows, proposed, i + 1)

\* SET names every column of the table but conflict_column
UpdateDictOfTable(first_record, conflict_column) == WideCols \ {conflict_column}

\* the keys of update_dict: those of the first record but conflict_column
UpdateDict(first_record, conflict_column) == DOMAIN first_record \ {conflict_column}

\* no rollback: what the failed statement wrote stays
EndTransactionKeep(rows, done) == done.rows

\* leaving `async with session.begin()`: the rows the statement wrote are
\* committed when it succeeded and rolled back when it raised
EndTransaction(rows, done) == IF done.err = "ok" THEN done.rows ELSE rows

insert_data_with_update(t, records_data, conflict_column, update_on_conflict) ==
    LET args == [NoArgs EXCEPT !.records = records_data,
                               !.conflict_column = conflict_column,
                               !.update_on_conflict = update_on_conflict]
        table == TableOf(t)
        refl == ToReflect(metadata, db)
        recs == records_data.recs
        first_record == recs[1]
        keys == DOMAIN first_record
        update_dict == UpdateDict(first_record, conflict_column)
        proposed == Proposed(recs, keys, db[t].cols)
        done == IF update_on_conflict
                THEN OnConflictDoUpdate(db[t].rows, {}, proposed, 1, update_dict)
                ELSE OnConflictDoNothing(db[t].rows, proposed, 1)
        raise(e, log, access) ==
            /\ call' = Call("insert_data_with_update", t, args, e, <<>>, "none", log,
                            access, refl)
            /\ UNCHANGED db
    IN  /\ Resolve
        /\ UNCHANGED deletion_password
        /\ IF ~table.cached THEN raise("NoSuchTableError", <<>>, {"connect"})
           ELSE IF recs = <<>> THEN raise("ok", <<"debug", "warning">>, {"connect"})
           ELSE IF update_on_conflict /\ ~(update_dict \subseteq table.cols)
                THEN raise("AttributeError", <<"debug">>, {"connect"})
           ELSE IF update_on_conflict /\ update_dict = {}
                THEN raise("ValueError", <<"debug">>, {"connect"})
           ELSE IF \/ ~(keys \subseteq table.cols)
                   \/ \E i \in DOMAIN recs : ~(keys \subseteq DOMAIN recs[i])
                THEN raise("CompileError", <<"debug">>, {"connect", "session"})
           ELSE IF \/ Undefined(t, keys)
                   \/ update_on_conflict /\ conflict_column # PrimaryKey
                THEN raise("ProgrammingError", <<"debug">>, {"connect", "session"})
           ELSE IF PrimaryKey \notin keys
                THEN raise("IntegrityError", <<"debug">>, {"connect", "session"})
           ELSE /\ db' = [db EXCEPT ![t].rows = EndTransaction(db[t].rows, done)]
                /\ call' = Call("insert_data_with_update", t, args, done.err, <<>>, "none",
                                IF done.err = "ok" THEN <<"debug", "info">> ELSE <<"debug">>,
                                {"connect", "session"}, refl)


(***************************************************************************)
(* The engine and the sessions.  connect() creates an engine, a session    *)
(* factory bound to it and one session instance; disconnect() closes the   *)
(* instance and disposes the engine that self holds.  Every operation on   *)
(* rows runs `async with self.session() as session` around                 *)
(* `async with session.begin()`; several callers may be inside at once,    *)
(* each suspended at one of its awaits.                                    *)
(***************************************************************************)
Tasks == {"p", "q"}

SessionOps ==
    {"select_data", "insert_data_with_update", "update_data", "delete_data",
     "delete_all_data"}

NoEngines == [e \in 1..MaxConnect |-> "none"]

NoSessions == [i \in 1..MaxSessions |-> [state |-> "none", maker |-> "none"]]

IdleOp == [pc |-> "idle", op |-> "none", session |-> 0, outcome |-> "none"]

Outside == [pc |-> "out", engine |-> 0, session |-> 0, raised |-> FALSE, propagated |-> FALSE]

Created(ss) == Cardinality({i \in DOMAIN ss : ss[i].state # "none"})

CreatedEngines(es) == Cardinality({e \in DOMAIN es : es[e] # "none"})

\* a session object comes into being, made by a caller or by connect()
Open(ss, i, maker) ==
    [ss EXCEPT ![i] = IF @.state = "none" THEN [state |-> "open", maker |-> maker]
                      ELSE [@ EXCEPT !.state = "open"]]

\* self.session() replaced by self._session_instance
SessionOfInstance(ss, instance) == instance

\* self.session(): the factory makes a new session at every call
SessionOf(ss, instance) == Created(ss) + 1

\* the session is closed only when the block ended without an exception
ExitOnSuccess(ss, i, outcome) ==
    IF outcome = "ok" THEN [ss EXCEPT ![i].state = "closed"] ELSE ss

\* leaving `async with self.session() as session` closes the session,
\* however the block ended
Exit(ss, i, outcome) == [ss EXCEPT ![i].state = "closed"]

\* the engine is left as it is
DisposeNone(es, e) == es

\* await self.engine.dispose(), if self.engine is set
Dispose(es, e) == IF e # 0 THEN [es EXCEPT ![e] = "disposed"] ELSE es

\* await self._session_instance.close(), if self._session_instance is set
Close(ss, i) == IF i # 0 THEN [ss EXCEPT ![i].state = "closed"] ELSE ss

\* the body of connect(): a new engine and a new session instance take the
\* place of the ones self held
Connect ==
    /\ CreatedEngines(engines) < MaxConnect
    /\ Created(sessions) < MaxSessions
    /\ engine' = CreatedEngines(engines) + 1
    /\ engines' = [engines EXCEPT ![engine'] = "open"]
    /\ _session_instance' = Created(sessions) + 1
    /\ sessions' = Open(sessions, _session_instance', "connect")
    /\ last' = "connect"

\* the body of disconnect()
Disconnect ==
    /\ sessions' = Close(sessions, _session_instance)
    /\ engines' = Dispose(engines, engine)
    /\ last' = "disconnect"
    /\ UNCHANGED <<engine, _session_instance>>

connect ==
    /\ scope.pc # "in"
    /\ Connect
    /\ UNCHANGED <<ops, scope>>

disconnect ==
    /\ scope.pc # "in"
    /\ Disconnect
    /\ UNCHANGED <<ops, scope>>

\* __aenter__: the block is entered with the engine and the session
\* instance connect() made
aenter ==
    /\ scope.pc = "out"
    /\ Connect
    /\ scope' = [Outside EXCEPT !.pc = "in", !.engine = engine',
                                !.session = _session_instance']
    /\ UNCHANGED ops

\* __aexit__(exc_type, exc, tb): the block is left, normally or by an
\* exception raised inside it; __aexit__ returns None, so the exception
\* goes on to the caller
aexit(raised) ==
    /\ scope.pc = "in"
    /\ Disconnect
    /\ scope' = [scope EXCEPT !.pc = "left", !.raised = raised, !.propagated = raised]
    /\ UNCHANGED ops

\* a caller starts an operation: table = await self.get_table(...) fails
\* on a manager that never connected, or for a table that is not there
begin(p, op, found) ==
    /\ ops[p].pc = "idle"
    /\ Created(sessions) < MaxSessions
    /\ ops' = [ops EXCEPT ![p] =
                 IF engine = 0
                 THEN [IdleOp EXCEPT !.pc = "done", !.op = op, !.outcome = "AttributeError"]
                 ELSE IF ~found
                 THEN [IdleOp EXCEPT !.pc = "done", !.op = op, !.outcome = "NoSuchTableError"]
                 ELSE [IdleOp EXCEPT !.pc = "resolved", !.op = op]]
    /\ UNCHANGED <<engine, _session_instance, engines, sessions, scope, last>>

\* async with self.session() as session
enter(p) ==
    /\ ops[p].pc = "resolved"
    /\ LET i == SessionOf(sessions, _session_instance)
       IN  /\ i \in 1..MaxSessions
           /\ sessions' = Open(sessions, i, p)
           /\ ops' = [ops EXCEPT ![p].pc = "session", ![p].session = i]
    /\ UNCHANGED <<engine, _session_instance, engines, scope, last>>

\* async with session.begin(): await session.execute(stmt), and the commit
\* or the rollback: the statement succeeds, fails in the database, or the
\* connection fails
execute(p, outcome) ==
    /\ ops[p].pc = "session"
    /\ ops' = [ops EXCEPT ![p].pc = "executed", ![p].outcome = outcome]
    /\ UNCHANGED <<engine, _session_instance, engines, sessions, scope, last>>

\* the end of `async with self.session() as session`, on every path
exit(p) ==
    /\ ops[p].pc = "executed"
    /\ sessions' = Exit(sessions, ops[p].session, ops[p].outcome)
    /\ ops' = [ops EXCEPT ![p].pc = "done"]
    /\ UNCHANGED <<engine, _session_instance, engines, scope, last>>

\* the caller has the return value or the exception
finish(p) ==
    /\ ops[p].pc = "done"
    /\ ops' = [ops EXCEPT ![p] = IdleOp]
    /\ UNCHANGED <<engine, _session_instance, engines, sessions, scope, last>>

\* a manager after construction
Unconnected ==
    /\ engine = 0
    /\ _session_instance = 0
    /\ engines = NoEngines
    /\ sessions = NoSessions
    /\ ops = [p \in Tasks |-> IdleOp]
    /\ scope = Outside
    /\ last = "none"

\* a manager after construction and one connect()
Connected ==
    /\ engine = 1
    /\ _session_instance = 1
    /\ engines = [NoEngines EXCEPT ![1] = "open"]
    /\ sessions = Open(NoSessions, 1, "connect")
    /\ ops = [p \in Tasks |-> IdleOp]
    /\ scope = Outside
    /\ last = "connect"

Init ==
    /\ deletion_password = "pw"
    /\ metadata = [t \in Tables |-> NotCached]
    /\ db \in {d \in [Tables -> {Absent} \cup {EmptyTable(s) : s \in SUBSET AllCols}] :
                \A t \in Tables : d[t].exists => d[t].cols \in SchemasOf(t)}
    /\ reflects = [t \in Tables |-> 0]
    /\ call = NoCall
    /\ Connected

Next ==
    \/ Return
    \/ Ready /\ Quiet /\ \E t \in Tables : get_table(t)
    \/ Ready /\ Quiet /\ \E t \in Tables : \E cols \in SchemasOf(t) : create_table(t, cols)
    \/ Ready /\ Quiet /\ \E t \in Tables, w \in Wheres, columns \in Projections, one_dict \in BOOLEAN :
                  select_data(t, w, columns, one_dict)
    \/ Ready /\ Quiet /\ \E t \in Tables, w \in Wheres, update_dict \in Mappings(AllCols) :
                  update_data(t, w, update_dict)
    \/ Ready /\ Quiet /\ \E t \in Tables, w \in Wheres : delete_data(t, w)
    \/ Ready /\ Quiet /\ \E t \in Tables, password \in Passwords : drop_table(t, password)
    \/ Ready /\ Quiet /\ \E t \in Tables, password \in Passwords : delete_all_data(t, password)
    \/ Ready /\ Quiet /\ \E t \in Tables, records_data \in RecordsData, conflict_column \in AllCols,
                     update_on_conflict \in BOOLEAN :
                  insert_data_with_update(t, records_data, conflict_column, update_on_conflict)

Spec == Init /\ [][Next]_vars

(***************************************************************************)
(* Batches of records over a table of three columns that holds rows: the   *)
(* records of a batch may differ in their keys.                            *)
(***************************************************************************)
WideRecords == {m \in Literals(WideCols) : DOMAIN m # {}}

WideRecordsData ==
    {[kind |-> "dict", recs |-> <<r>>] : r \in WideRecords}
    \cup {[kind |-> "list", recs |-> s] : s \in SeqsOf(WideRecords, 0, MaxBatch)}

OldRows == {[id |-> v, a |-> "v2", c |-> "v2"] : v \in Vals}

BatchInit ==
    /\ deletion_password = "pw"
    /\ metadata = [t \in Tables |-> NotCached]
    /\ db \in {[t \in Tables |-> IF t = "t1" THEN [EmptyTable(WideCols) EXCEPT !.rows = rows]
                                 ELSE Absent] : rows \in SUBSET OldRows}
    /\ reflects = [t \in Tables |-> 0]
    /\ call = NoCall
    /\ Connected

BatchNext ==
    \/ Return
    \/ Ready /\ Quiet /\ \E records_data \in WideRecordsData, conflict_column \in AllCols,
                              update_on_conflict \in BOOLEAN :
                  insert_data_with_update("t1", records_data, conflict_column,
                                          update_on_conflict)

BatchSpec == BatchInit /\ [][BatchNext]_vars

(***************************************************************************)
(* The life of the engine and the sessions, on a database with no tables.  *)
(***************************************************************************)
LifeInit ==
    /\ deletion_password = "pw"
    /\ metadata = [t \in Tables |-> NotCached]
    /\ db = [t \in Tables |-> Absent]
    /\ reflects = [t \in Tables |-> 0]
    /\ call = NoCall
    /\ Unconnected

LifeNext ==
    \/ connect /\ UNCHANGED data_vars
    \/ disconnect /\ UNCHANGED data_vars
    \/ aenter /\ UNCHANGED data_vars
    \/ \E raised \in BOOLEAN : aexit(raised) /\ UNCHANGED data_vars
    \/ \E p \in Tasks, op \in SessionOps, found \in BOOLEAN :
          begin(p, op, found) /\ UNCHANGED data_vars
    \/ \E p \in Tasks : enter(p) /\ UNCHANGED data_vars
    \/ \E p \in Tasks, outcome \in {"ok", "StatementError", "ConnectionError"} :
          execute(p, outcome) /\ UNCHANGED data_vars
    \/ \E p \in Tasks : exit(p) /\ UNCHANGED data_vars
    \/ \E p \in Tasks : finish(p) /\ UNCHANGED data_vars

LifeSpec == LifeInit /\ [][LifeNext]_vars

(***************************************************************************)
(* Properties.  Each is stated on the state a call leaves: `call` holds    *)
(* the call's arguments and outcome, call.before the database and catalog  *)
(* it started from, db and metadata what it left.                          *)
(***************************************************************************)
Guarded(c) == c.op \in {"drop_table", "delete_all_data"}

Returned(c) == c.outcome = "ok"

RowsBefore(t) == call.before.db[t].rows

RowsAfter(t) == db[t].rows

\* C1: drop_table and delete_all_data called with a password other than
\* deletion_password return normally, touch the database in no way, log a
\* warning and leave every table and every row as it was.
C1_WrongPasswordIsNoOp ==
    (Guarded(call) /\ call.args.password # deletion_password) =>
        /\ Returned(call)
        /\ call.access = {}
        /\ call.log = <<"warning">>
        /\ db = call.before.db
        /\ metadata = call.before.metadata

C1_Witness ==
    /\ call.op = "drop_table"
    /\ call.args.password # deletion_password
    /\ db[call.table].exists
    /\ db[call.table].rows # {}
    /\ call.log = <<"warning">>

\* C2: delete_all_data(t, deletion_password) on an existing table t leaves
\* t in the database with no rows, and every other table as it was.
C2_DeleteAllEmptiesTable ==
    (/\ call.op = "delete_all_data"
     /\ call.args.password = deletion_password
     /\ call.before.db[call.table].exists) =>
        /\ Returned(call)
        /\ db[call.table].exists
        /\ db[call.table].cols = call.before.db[call.table].cols
        /\ db[call.table].rows = {}
        /\ \A u \in Tables \ {call.table} : db[u] = call.before.db[u]

C2_Witness ==
    /\ call.op = "delete_all_data"
    /\ call.args.password = deletion_password
    /\ Cardinality(RowsBefore(call.table)) = 2
    /\ db[call.table].exists
    /\ RowsAfter(call.table) = {}
    /\ \E u \in Tables \ {call.table} : db[u].rows # {}

Recs == call.args.records.recs

\* the columns of the batch: the keys of its first record
BatchCols == DOMAIN Recs[1]

KeysOf(rows, col) == {r[col] : r \in rows}

BatchKeys(col) == {Recs[i][col] : i \in DOMAIN Recs}

ByColumn(col, v) == [kind |-> "dict", maps |-> <<[k \in {col} |-> v]>>]

C4_IgnoreKeepsExistingRow ==
    (/\ call.op = "insert_data_with_update"
     /\ ~call.args.update_on_conflict
     /\ Recs # <<>>
     /\ call.before.db[call.table].exists
     /\ PrimaryKey \in BatchCols
     /\ BatchCols \subseteq call.before.db[call.table].cols
     /\ BatchCols \subseteq metadata[call.table].cols
     /\ \A i \in DOMAIN Recs : BatchCols \subseteq DOMAIN Recs[i]) =>
        LET t == call.table
        IN  /\ Returned(call)
            /\ RowsBefore(t) \subseteq RowsAfter(t)
            /\ \A i \in DOMAIN Recs :
                  LET r == Recs[i]
                      was == {o \in RowsBefore(t) : o[PrimaryKey] = r[PrimaryKey]}
                      now == {n \in RowsAfter(t) : n[PrimaryKey] = r[PrimaryKey]}
                      j == CHOOSE j \in DOMAIN Recs :
                              /\ Recs[j][PrimaryKey] = r[PrimaryKey]
                              /\ \A k \in 1..(j - 1) : Recs[k][PrimaryKey] # r[PrimaryKey]
                  IN  /\ Cardinality(now) = 1
                      /\ was # {} => now = was
                      /\ was = {} =>
                            \A n \in now : \A c \in DOMAIN n :
                                n[c] = IF c \in BatchCols THEN Recs[j][c] ELSE NULL
            /\ Cardinality(RowsAfter(t)) =
                  Cardinality(RowsBefore(t))
                  + Cardinality(BatchKeys(PrimaryKey) \ KeysOf(RowsBefore(t), PrimaryKey))
            /\ \A u \in Tables \ {t} : db[u] = call.before.db[u]

C4_Witness ==
    /\ call.op = "insert_data_with_update"
    /\ ~call.args.update_on_conflict
    /\ Returned(call)
    /\ Len(Recs) = 2
    /\ \E o \in RowsBefore(call.table) :
          /\ Recs[1] = [id |-> o["id"], a |-> "v1"]
          /\ "a" \in DOMAIN o /\ o["a"] = "v2"
          /\ o \in RowsAfter(call.table)
    /\ Recs[2]["id"] \notin KeysOf(RowsBefore(call.table), "id")
    /\ Recs[2]["id"] \in KeysOf(RowsAfter(call.table), "id")

Where == call.args.where

Agrees(r, m) == \A k \in DOMAIN m : r[k] = m[k]

SelectedCols ==
    IF call.args.columns # {} THEN call.args.columns ELSE metadata[call.table].cols

Updated(r) ==
    [k \in DOMAIN r |->
        IF k \in DOMAIN call.args.update_dict THEN call.args.update_dict[k] ELSE r[k]]

\* the call acted on exactly the rows S of its table: select_data returned
\* them (one of them with one_dict), update_data changed them and no other
\* row, delete_data removed them and no other row
ActedOn(S) ==
    LET t == call.table
    IN  IF call.op = "select_data"
        THEN IF call.args.one_dict
             THEN IF S = {} THEN call.result = <<>>
                  ELSE /\ Len(call.result) = 1
                       /\ \E r \in S : call.result[1] = Project(r, SelectedCols)
             ELSE /\ Len(call.result) = Cardinality(S)
                  /\ {call.result[i] : i \in DOMAIN call.result}
                        = {Project(r, SelectedCols) : r \in S}
        ELSE IF call.op = "update_data"
        THEN /\ RowsAfter(t) = (RowsBefore(t) \ S) \cup {Updated(r) : r \in S}
             /\ Cardinality(RowsAfter(t)) = Cardinality(RowsBefore(t))
        ELSE RowsAfter(t) = RowsBefore(t) \ S

FilterCall ==
    /\ call.op \in {"select_data", "update_data", "delete_data"}
    /\ Returned(call)

\* C5: a where_dict that is one mapping with at least one entry selects, in
\* select_data, update_data and delete_data alike, exactly the rows equal
\* to the literal in every column of the mapping.
C5_MappingIsConjunction ==
    (FilterCall /\ Where.kind = "dict" /\ DOMAIN Where.maps[1] # {}) =>
        ActedOn({r \in RowsBefore(call.table) : Agrees(r, Where.maps[1])})

C5_Witness ==
    /\ call.op = "update_data"
    /\ Returned(call)
    /\ Where = [kind |-> "dict", maps |-> <<[id |-> "v1", a |-> "v1"]>>]
    /\ call.args.update_dict = [a |-> "v2"]
    /\ RowsBefore(call.table) = {[id |-> "v1", a |-> "v1"], [id |-> "v2", a |-> "v1"]}
    /\ RowsAfter(call.table) = {[id |-> "v1", a |-> "v2"], [id |-> "v2", a |-> "v1"]}

\* C6: a where_dict that is a list of at least one mapping selects, in
\* select_data, update_data and delete_data alike, exactly the rows that
\* agree with every entry of at least one mapping of the list.
C6_ListIsDisjunction ==
    (FilterCall /\ Where.kind = "list" /\ Where.maps # <<>>) =>
        ActedOn({r \in RowsBefore(call.table) :
                    \E i \in DOMAIN Where.maps : Agrees(r, Where.maps[i])})

\* the frame of update_data: the rows its WHERE matches get the payload
\* values in the payload columns, nothing else changes
UpdateFrame ==
    LET t == call.table
        hit == Matching(RowsBefore(t), WriteWhere(Where))
    IN  /\ \A r \in hit : \E n \in RowsAfter(t) : \A k \in DOMAIN r :
              n[k] = IF k \in DOMAIN call.args.update_dict
                     THEN call.args.update_dict[k] ELSE r[k]
        /\ RowsBefore(t) \ hit \subseteq RowsAfter(t)
        /\ Cardinality(RowsAfter(t)) = Cardinality(RowsBefore(t))
        /\ db[t].exists /\ db[t].cols = call.before.db[t].cols
        /\ \A u \in Tables \ {t} : db[u] = call.before.db[u]

\* select_data with the same filter, after the update, yields the updated rows
SelectAfterUpdate ==
    LET t == call.table
    IN  Matching(RowsAfter(t), SelectWhere(Where))
            = {Updated(r) : r \in Matching(RowsBefore(t), WriteWhere(Where))}

UpdateCall ==
    /\ call.op = "update_data"
    /\ Returned(call)
    /\ DOMAIN call.args.update_dict # {}

\* C7 as stated: update_data with a payload sets the payload columns on the
\* matching rows and changes nothing else, and select_data with the same
\* filter then returns the new values.
C7_UpdateThenSelectAlways == UpdateCall => (UpdateFrame /\ SelectAfterUpdate)

\* C7, amended: update_data with a payload sets the payload columns on the
\* matching rows and changes nothing else; select_data with the same filter
\* then returns the new values when the payload assigns no column the
\* filter tests.
C7_UpdateFrame ==
    UpdateCall =>
        /\ UpdateFrame
        /\ (DOMAIN call.args.update_dict \cap Keys(Where) = {}) => SelectAfterUpdate

C7_Witness ==
    /\ UpdateCall
    /\ Where = [kind |-> "dict", maps |-> <<[id |-> "v1"]>>]
    /\ call.args.update_dict = [a |-> "v2"]
    /\ RowsBefore(call.table) = {[id |-> "v1", a |-> "v1"], [id |-> "v2", a |-> "v1"]}
    /\ RowsAfter(call.table) = {[id |-> "v1", a |-> "v2"], [id |-> "v2", a |-> "v1"]}
    /\ \E u \in Tables \ {call.table} : db[u].rows # {}

\* C8: delete_data removes exactly the rows its filter matches, the rows
\* select_data with that filter returned before; None, {} and [] match
\* every row, so the table is emptied with no password asked; select_data
\* with the same filter afterwards finds nothing.
C8_DeleteRemovesMatching ==
    (call.op = "delete_data" /\ Returned(call)) =>
        LET t == call.table
            gone == RowsBefore(t) \ RowsAfter(t)
        IN  /\ RowsAfter(t) \subseteq RowsBefore(t)
            /\ gone = Matching(RowsBefore(t), SelectWhere(Where))
            /\ Where.kind = "dict" =>
                  gone = {r \in RowsBefore(t) : Agrees(r, Where.maps[1])}
            /\ (Where.kind = "none" \/ Keys(Where) = {}) => RowsAfter(t) = {}
            /\ Matching(RowsAfter(t), SelectWhere(Where)) = {}
            /\ db[t].exists
            /\ \A u \in Tables \ {t} : db[u] = call.before.db[u]

C8_Witness ==
    /\ call.op = "delete_data"
    /\ Returned(call)
    /\ Where = [kind |-> "list", maps |-> <<>>]
    /\ Cardinality(RowsBefore(call.table)) = 2
    /\ RowsAfter(call.table) = {}
    /\ call.args.password = ""

\* the calls that resolve their table through get_table
Resolving(c) ==
    \/ c.op \in {"get_table", "select_data", "insert_data_with_update", "update_data",
                 "delete_data"}
    \/ Guarded(c) /\ c.args.password = deletion_password

\* C9: a table is reflected at most once by one manager: a call reflects
\* no table the catalog already held, and leaves the entries it held as
\* they were.
C9_ReflectedAtMostOnce ==
    \A t \in Tables :
        /\ reflects[t] <= 1
        /\ call.before.metadata[t].cached =>
              /\ t \notin call.reflected
              /\ metadata[t] = call.before.metadata[t]

C9_Witness ==
    /\ call.op = "select_data"
    /\ Returned(call)
    /\ reflects[call.table] = 1
    /\ call.before.metadata[call.table].cached
    /\ call.reflected = {}
    /\ call.access = {"connect", "session"}

\* C10: a call that resolves a table the database does not hold at that
\* time fails with the not-found error.
C10_AbsentTableNotFound ==
    (Resolving(call) /\ ~call.before.db[call.table].exists) =>
        call.outcome = "NoSuchTableError"

\* the statement of the call reached the database: a session was opened
\* and the statement compiled
Sent(c) == "session" \in c.access /\ c.outcome # "CompileError"

\* the columns the filter of the call names, as its operation reads it
FilterKeys ==
    IF call.op = "select_data" /\ ~Truthy(Where) THEN {} ELSE Keys(Where)

\* C11: select_data, update_data and delete_data with a filter naming a
\* column the resolved table does not have raise the KeyError of the
\* column lookup before a session is opened and before a statement is
\* sent, and no row of any table changes.
C11_UnknownFilterColumnFailsFast ==
    (/\ call.op \in {"select_data", "update_data", "delete_data"}
     /\ metadata[call.table].cached
     /\ ~(FilterKeys \subseteq metadata[call.table].cols)) =>
        /\ call.outcome = "KeyError"
        /\ "session" \notin call.access
        /\ ~Sent(call)
        /\ db = call.before.db

C11_Witness ==
    /\ call.op = "update_data"
    /\ Where = [kind |-> "list", maps |-> <<[id |-> "v1"], [a |-> "v1"]>>]
    /\ call.args.update_dict = [id |-> "v2"]
    /\ metadata[call.table].cols = {"id"}
    /\ RowsBefore(call.table) = {[id |-> "v1"]}
    /\ call.outcome = "KeyError"
    /\ RowsAfter(call.table) = {[id |-> "v1"]}

\* C12: update_data with an empty payload, on a table that exists and a
\* filter over its columns, fails without sending an UPDATE statement to
\* the database, and no row changes.
C12_EmptyPayloadRejected ==
    (/\ call.op = "update_data"
     /\ DOMAIN call.args.update_dict = {}
     /\ call.before.db[call.table].exists
     /\ FilterKeys \subseteq metadata[call.table].cols) =>
        /\ ~Returned(call)
        /\ ~Sent(call)
        /\ db = call.before.db

WriteOps == {"insert_data_with_update", "update_data", "delete_data", "delete_all_data"}

\* C13: when the statement of insert_data_with_update, update_data,
\* delete_data or delete_all_data fails in its session, the error reaches
\* the caller and the database is as it was before the call; no record of
\* a failed batch is kept.
C13_FailedStatementRollsBack ==
    (/\ call.op \in WriteOps
     /\ "session" \in call.access
     /\ ~Returned(call)) =>
        /\ call.outcome \in {"CompileError", "ProgrammingError", "IntegrityError", "DBAPIError"}
        /\ db = call.before.db

C13_Witness ==
    /\ call.op = "insert_data_with_update"
    /\ call.args.update_on_conflict
    /\ Len(Recs) = 2
    /\ \A i \in 1..2 : DOMAIN Recs[i] = {"id", "a"}
    /\ Recs[1]["id"] = Recs[2]["id"]
    /\ Recs[1]["id"] \notin KeysOf(RowsBefore(call.table), "id")
    /\ RowsBefore(call.table) # {}
    /\ call.outcome = "DBAPIError"
    /\ RowsAfter(call.table) = RowsBefore(call.table)

\* the columns a select_data names: the selected ones and the filtered ones
SelectUses == SelectedCols \cup FilterKeys

\* C16: select_data with one_dict=True whose statement the table accepts
\* returns; it returns one record, the projection of a matching row, when
\* a row matches, and the empty list when none does; never two rows.
C16_OneDictReturnsOneRow ==
    (call.op = "select_data" /\ call.args.one_dict) =>
        LET t == call.table
            hit == Matching(RowsBefore(t), SelectWhere(Where))
        IN  /\ (/\ call.before.db[t].exists
                /\ SelectUses \subseteq metadata[t].cols
                /\ SelectUses \subseteq db[t].cols) => Returned(call)
            /\ Returned(call) =>
                  /\ Len(call.result) <= 1
                  /\ IF hit = {}
                     THEN call.shape = "list" /\ call.result = <<>>
                     ELSE /\ call.shape = "dict"
                          /\ \E r \in hit : call.result[1] = Project(r, SelectedCols)

C16_Witness ==
    /\ call.op = "select_data"
    /\ call.args.one_dict
    /\ Returned(call)
    /\ Where = [kind |-> "dict", maps |-> <<[a |-> "v1"]>>]
    /\ Cardinality(Matching(RowsBefore(call.table), SelectWhere(Where))) = 2
    /\ Cardinality(RowsBefore(call.table)) = 2
    /\ call.shape = "dict"
    /\ call.result = <<[id |-> "v2", a |-> "v1"]>>

\* C19: drop_table with the deletion password on an existing table removes
\* it from the database and leaves every other table as it was, and a
\* table this manager dropped comes back only through create_table of
\* that table.
C19_DroppedTableStaysAbsent ==
    [][/\ (/\ call'.op = "drop_table"
           /\ call'.args.password = deletion_password
           /\ db[call'.table].exists) =>
              /\ Returned(call')
              /\ ~db'[call'.table].exists
              /\ \A u \in Tables \ {call'.table} : db'[u] = db[u]
       /\ \A t \in Tables :
              (metadata[t].cached /\ ~db[t].exists /\ db'[t].exists) =>
                  (call'.op = "create_table" /\ call'.table = t)]_vars

\* the caller is inside `async with self.session() as session`
InFlight(p) == ops[p].pc \in {"session", "executed"}

\* C14: a session an operation opened is open only while that operation
\* is inside its session block: once the call has returned or raised, on
\* success, on a statement error and on a connectivity error alike, its
\* session is closed, and no operation session is open when no call runs.
C14_SessionsReleased ==
    /\ \A i \in 1..MaxSessions :
          (sessions[i].maker \in Tasks /\ sessions[i].state = "open") =>
              (InFlight(sessions[i].maker) /\ ops[sessions[i].maker].session = i)
    /\ \A p \in Tasks :
          (ops[p].pc = "done" /\ ops[p].session # 0) =>
              sessions[ops[p].session].state = "closed"

C14_Witness ==
    /\ ops["p"].pc = "done"
    /\ ops["p"].outcome = "ConnectionError"
    /\ sessions[ops["p"].session].state = "closed"
    /\ ops["q"].pc = "done"
    /\ ops["q"].outcome = "StatementError"
    /\ sessions[ops["q"].session].state = "closed"
    /\ \E i \in 1..MaxSessions : sessions[i].maker \in Tasks /\ i \notin {ops["p"].session, ops["q"].session}

\* C15: when the `async with` block has been left, normally or by an
\* exception, disconnect() has run: the session instance and the engine
\* that entering the block created are closed and disposed, and the
\* exception, if there was one, went on to the caller.
C15_ScopeExitDisconnects ==
    scope.pc = "left" =>
        /\ sessions[scope.session].state = "closed"
        /\ engines[scope.engine] = "disposed"
        /\ scope.propagated = scope.raised

C15_Witness ==
    /\ scope.pc = "left"
    /\ scope.raised
    /\ scope.propagated
    /\ engines[scope.engine] = "disposed"
    /\ sessions[scope.session].state = "closed"
    /\ \E p \in Tasks : ops[p].pc = "done" /\ ops[p].outcome = "StatementError"

\* C17: callers running operations at the same time each use a session
\* made for that operation: never the session of another caller, never a
\* session instance made by connect().
C17_OwnSessionPerOperation ==
    \A p \in Tasks :
        InFlight(p) =>
            /\ sessions[ops[p].session].maker = p
            /\ ops[p].session # _session_instance
            /\ \A q \in Tasks \ {p} : InFlight(q) => ops[q].session # ops[p].session

C17_Witness ==
    /\ ops["p"].pc = "session"
    /\ ops["p"].op = "select_data"
    /\ ops["q"].pc = "executed"
    /\ ops["q"].op = "insert_data_with_update"
    /\ ops["p"].session # ops["q"].session
    /\ sessions[_session_instance].state = "open"

\* C20: after a disconnect() that no connect() followed, every engine and
\* every session instance that the connect() calls of the manager created
\* is disposed or closed.
C20_DisconnectReleasesAll ==
    last = "disconnect" =>
        /\ \A e \in 1..MaxConnect : engines[e] # "open"
        /\ \A i \in 1..MaxSessions :
              sessions[i].maker = "connect" => sessions[i].state # "open"

\* C18: insert_data_with_update with update_on_conflict=True: a batch with
\* no record writes nothing, opens no session and returns after a warning;
\* in a batch that returns, every record that meets a row overwrites in it
\* the keys of the first record but conflict_column, whatever keys the
\* record itself has, and leaves the row's other columns.
C18_SetFromFirstRecord ==
    (call.op = "insert_data_with_update" /\ call.args.update_on_conflict) =>
        LET t == call.table
            cc == call.args.conflict_column
        IN  /\ Recs = <<>> =>
                  /\ Returned(call)
                  /\ call.log = <<"debug", "warning">>
                  /\ "session" \notin call.access
                  /\ db = call.before.db
            /\ (Recs # <<>> /\ Returned(call)) =>
                  \A i \in DOMAIN Recs : \A o \in RowsBefore(t) :
                      o[cc] = Recs[i][cc] =>
                          [c \in DOMAIN o |->
                              IF c \in BatchCols \ {cc} THEN Recs[i][c] ELSE o[c]]
                            \in RowsAfter(t)

C18_Witness ==
    /\ call.op = "insert_data_with_update"
    /\ call.args.update_on_conflict
    /\ Returned(call)
    /\ Len(Recs) = 2
    /\ DOMAIN Recs[1] = {"id", "a"}
    /\ DOMAIN Recs[2] = {"id", "a", "c"}
    /\ RowsBefore(call.table) = OldRows
    /\ RowsAfter(call.table) = {[id |-> v, a |-> "v1", c |-> "v2"] : v \in Vals}
====
